---- MODULE Spec2Model ----
(***************************************************************************)
(* AthenaPandasResultSet (pyathena/pandas/result_set.py): construction     *)
(* (engine selection, text and columnar materialisation), the forward-only *)
(* row cursor (fetchone / fetchmany / fetchall), as_pandas and close.      *)
(*                                                                         *)
(* Strings are sequences of one-character strings; Python's None is the    *)
(* one-element sequence <<"None">>, which is no string of characters.      *)
(* A DataFrame is a record [columns, rows]; a row maps column names to     *)
(* values.                                                                 *)
(***************************************************************************)
EXTENDS Naturals, Sequences, FiniteSets, TLC

VARIABLES
    env,              \* what the collaborators supply: query execution, storage, importable modules
    phase,            \* "new" | "open" | "closed" | "failed" (the constructor raised)
    error,            \* the exception the constructor raised: [type, msg]
    unload,           \* self._unload
    unload_location,  \* self._unload_location
    engine,           \* self._engine
    arraysize,        \* self._arraysize
    data_manifest,    \* self._data_manifest
    metadata,         \* self._metadata (column names), None after the base close
    df,               \* self._df
    iterrows,         \* self._iterrows: [records, pos] = enumerate(records) advanced pos times
    rownumber,        \* self._rownumber
    lastOp,           \* the operation that ran last
    result,           \* what it returned: [kind, val]
    nSucc,            \* history: fetchone calls that returned a row
    log,              \* history: reads issued and what they were handed
    chunk             \* history of a run of fetchmany(k) calls on the fresh cursor: [mode, k, acc, done]

vars == <<env, phase, error, unload, unload_location, engine, arraysize, data_manifest,
          metadata, df, iterrows, rownumber, lastOp, result, nSucc, log, chunk>>

\* ----------------------------------------------------------------- bounds
MaxLines == 3      \* lines of the text output file / rows of the columnar data
MaxPathLen == 3    \* characters of a manifest entry
MaxSize == 2       \* largest size passed to fetchmany, largest arraysize

\* ---------------------------------------------------------------- strings
None == <<"None">>
NULL == "NULL"

Truthy(s) == s # None /\ s # <<>>

\* str.strip(): leading and trailing whitespace removed
Whitespace == {" ", "\n", "\t"}

RECURSIVE LStrip(_)
LStrip(s) == IF s # <<>> /\ Head(s) \in Whitespace THEN LStrip(Tail(s)) ELSE s

RECURSIVE RStrip(_)
RStrip(s) ==
    IF s # <<>> /\ s[Len(s)] \in Whitespace THEN RStrip(SubSeq(s, 1, Len(s) - 1)) ELSE s

Strip(s) == RStrip(LStrip(s))

\* str.upper(), on the letters the queries below use
UpperChar(c) ==
    CASE c = "u" -> "U" [] c = "n" -> "N" [] c = "l" -> "L" [] c = "o" -> "O"
      [] c = "a" -> "A" [] c = "d" -> "D" [] c = "s" -> "S" [] c = "e" -> "E"
      [] c = "x" -> "X" [] OTHER -> c

Upper(s) == [i \in 1..Len(s) |-> UpperChar(s[i])]

StartsWith(s, p) == Len(s) >= Len(p) /\ SubSeq(s, 1, Len(p)) = p

EndsWith(s, p) == Len(s) >= Len(p) /\ SubSeq(s, Len(s) - Len(p) + 1, Len(s)) = p

\* str.split("/"): the segments between the separators, empty ones kept
RECURSIVE SplitFrom(_, _, _)
SplitFrom(s, i, cur) ==
    IF i > Len(s) THEN <<cur>>
    ELSE IF s[i] = "/" THEN <<cur>> \o SplitFrom(s, i + 1, <<>>)
    ELSE SplitFrom(s, i + 1, Append(cur, s[i]))

Split(s) == SplitFrom(s, 1, <<>>)

\* "/".join(parts)
RECURSIVE Join(_)
Join(parts) ==
    IF parts = <<>> THEN <<>>
    ELSE IF Len(parts) = 1 THEN parts[1]
    ELSE parts[1] \o <<"/">> \o Join(Tail(parts))

UNLOAD == <<"U", "N", "L", "O", "A", "D">>
DotCsv == <<".", "c", "s", "v">>
DotTxt == <<".", "t", "x", "t">>

\* -------------------------------------------------------------- DataFrame
EmptyDataFrame == [columns |-> <<>>, rows |-> <<>>]

\* DataFrame.empty
IsEmptyDF(d) == d.rows = <<>> \/ d.columns = <<>>

Range(s) == {s[i] : i \in 1..Len(s)}

NoLog == [as_pandas |-> 0, read_csv |-> 0, read_manifest |-> 0, read_parquet |-> 0,
          read_schema |-> 0, probes |-> <<>>, resolved |-> "-", decided |-> "-",
          handed |-> "-", schema_engine |-> "-", target |-> None, kwargs |-> {},
          configured |-> None]

NoError == [type |-> "none", msg |-> <<>>]

\* ------------------------------------------------------- engine selection
\* str(e) of the ImportError importlib.import_module(name) raises
ImportFailure(name) ==
    IF name = "pyarrow" THEN "No module named 'pyarrow'" ELSE "No module named 'fastparquet'"

\* the literal text of the ImportError raised when nothing imports: it names both engines
UnableToFind == <<"Unable to find a usable engine; tried using:", "pyarrow", "fastparquet">>

\* the for loop of __get_engine: import each candidate in turn, return the first that imports
RECURSIVE ProbeEngines(_, _, _, _)
ProbeEngines(candidates, importable, probes, error_msgs) ==
    IF candidates = <<>>
    THEN [ok |-> FALSE, name |-> "-", probes |-> probes, msg |-> UnableToFind \o error_msgs]
    ELSE IF Head(candidates) \in importable
    THEN [ok |-> TRUE, name |-> Head(candidates), probes |-> Append(probes, Head(candidates)),
          msg |-> <<>>]
    ELSE ProbeEngines(Tail(candidates), importable, Append(probes, Head(candidates)),
                      Append(error_msgs, ImportFailure(Head(candidates))))

\* mutant: fastparquet probed before pyarrow
GetEngineFastparquetFirst(preference, importable) ==
    IF preference = "auto"
    THEN ProbeEngines(<<"fastparquet", "pyarrow">>, importable, <<>>, <<>>)
    ELSE [ok |-> TRUE, name |-> preference, probes |-> <<>>, msg |-> <<>>]

\* __get_engine
GetEngine(preference, importable) ==
    IF preference = "auto"
    THEN ProbeEngines(<<"pyarrow", "fastparquet">>, importable, <<>>, <<>>)
    ELSE [ok |-> TRUE, name |-> preference, probes |-> <<>>, msg |-> <<>>]

\* ---------------------------------------------------------------- is_unload
\* mutant: the query text is not stripped before the prefix test
IsUnloadNoStrip(flag, query) ==
    flag /\ Truthy(query) /\ StartsWith(Upper(query), UNLOAD)

\* is_unload
IsUnload(flag, query) ==
    flag /\ Truthy(query) /\ StartsWith(Upper(Strip(query)), UNLOAD)

\* -------------------------------------------------------------- text path
\* self.description if self.description else []
Description(md) == IF md = None THEN <<>> ELSE md

IndexOf(columns, c) == CHOOSE i \in 1..Len(columns) : columns[i] = c

\* one parsed line: a field in na_values is null, and so is every field of a blank line
ParseLine(line, columns, na_values) ==
    [c \in Range(columns) |->
        IF line = <<>> THEN NULL
        ELSE IF line[IndexOf(columns, c)] \in na_values THEN NULL
        ELSE line[IndexOf(columns, c)]]

\* pandas.read_csv(..., header=0 | None, names, skip_blank_lines, na_values)
PdReadCsv(lines, header, names, skip_blank_lines, na_values) ==
    LET kept == IF skip_blank_lines THEN SelectSeq(lines, LAMBDA l : l # <<>>) ELSE lines
        columns == IF header THEN Head(kept) ELSE names
        data == IF header THEN Tail(kept) ELSE kept
    IN  [columns |-> columns,
         rows |-> [i \in 1..Len(data) |-> ParseLine(data[i], columns, na_values)]]

\* self._na_values as the constructor defaults it, with keep_default_na = False
DefaultNaValues == {""}

\* the materialisers work on the object's fields s = [unload, unload_location, engine,
\* data_manifest, metadata, log] and the collaborators e, and give the fields back with
\* df (the table read) and err (the exception raised)
Raise(s, type, msg) == [s EXCEPT !.err = [type |-> type, msg |-> msg]]

\* mutant: skip_blank_lines left at the pandas default
SkipBlankLinesDefault == TRUE

\* skip_blank_lines=False
SkipBlankLines == FALSE

\* _read_csv; the content length is that of the file, zero exactly when it has no line
ReadCsv(s, e) ==
    LET loc == e.output_location
        length == Len(e.file)
        s1 == [s EXCEPT !.log.read_csv = @ + 1]
    IN  IF ~Truthy(loc) THEN Raise(s, "ProgrammingError", <<"OutputLocation is none or empty.">>)
        ELSE IF ~(EndsWith(loc, DotCsv) \/ EndsWith(loc, DotTxt))
        THEN [s EXCEPT !.df = EmptyDataFrame]
        ELSE IF length # 0 /\ EndsWith(loc, DotTxt)
        THEN IF e.io_fails THEN Raise(s1, "OperationalError", <<>>)
             ELSE [s1 EXCEPT !.df = PdReadCsv(e.file, FALSE, Description(s.metadata),
                                              SkipBlankLines, DefaultNaValues)]
        ELSE IF length # 0 /\ EndsWith(loc, DotCsv)
        THEN IF e.io_fails THEN Raise(s1, "OperationalError", <<>>)
             ELSE [s1 EXCEPT !.df = PdReadCsv(e.file, TRUE, <<>>, SkipBlankLines,
                                              DefaultNaValues)]
        ELSE [s EXCEPT !.df = EmptyDataFrame]

\* ---------------------------------------------------------- columnar path
\* mutant: the parent directory without the trailing separator
UnloadLocationNoSlash(configured, manifest) ==
    IF ~Truthy(configured)
    THEN LET parts == Split(manifest[1]) IN Join(SubSeq(parts, 1, Len(parts) - 1))
    ELSE configured

\* if not self._unload_location: "/".join(self._data_manifest[0].split("/")[:-1]) + "/"
UnloadLocation(configured, manifest) ==
    IF ~Truthy(configured)
    THEN LET parts == Split(manifest[1]) IN Join(SubSeq(parts, 1, Len(parts) - 1)) \o <<"/">>
    ELSE configured

\* the engine pandas.read_parquet reads with, given its engine argument: "auto" is
\* the first importable of pyarrow and fastparquet, a name is that engine if it imports
PandasEngine(handed, importable) ==
    IF handed = "auto"
    THEN IF "pyarrow" \in importable THEN "pyarrow"
         ELSE IF "fastparquet" \in importable THEN "fastparquet" ELSE "-"
    ELSE IF handed \in importable THEN handed ELSE "-"

\* pd.read_parquet(unload_location, engine=self._engine, ..., **kwargs) within its try
PdReadParquet(s, e, eng, target, kwargs) ==
    LET s1 == [s EXCEPT !.log.read_parquet = @ + 1, !.log.decided = eng,
                        !.log.handed = s.engine, !.log.target = target,
                        !.log.kwargs = kwargs]
    IN  IF e.io_fails \/ PandasEngine(s.engine, e.importable) = "-"
        THEN Raise(s1, "OperationalError", <<>>)
        ELSE [s1 EXCEPT !.df = e.parquet]

\* _read_parquet
ReadParquet(s, e, eng) ==
    LET s1 == [s EXCEPT !.data_manifest = e.manifest, !.log.read_manifest = @ + 1]
        s2 == [s1 EXCEPT !.unload_location = UnloadLocation(@, s1.data_manifest)]
    IN  IF s1.data_manifest = <<>> THEN [s1 EXCEPT !.df = EmptyDataFrame]
        ELSE IF eng = "pyarrow"
        THEN PdReadParquet(s2, e, eng, s2.unload_location,
                           {"use_threads=True", "use_legacy_dataset=False"})
        ELSE IF eng = "fastparquet"
        THEN PdReadParquet(s2, e, eng, s2.unload_location \o <<"*">>, {})
        ELSE Raise(s2, "ProgrammingError", <<"Engine must be one of pyarrow, fastparquet.">>)

\* _read_parquet_schema: the column names of the files' own schema; the log counts the call
ReadParquetSchema(s, e, eng) ==
    LET s1 == [s EXCEPT !.log.read_schema = @ + 1, !.log.schema_engine = eng]
    IN  IF eng = "pyarrow"
        THEN IF eng \notin e.importable THEN Raise(s1, "ImportError", <<>>)
             ELSE IF ~Truthy(s.unload_location)
             THEN Raise(s1, "ProgrammingError", <<"UnloadLocation is none or empty.">>)
             ELSE IF e.io_fails THEN Raise(s1, "OperationalError", <<>>)
             ELSE [s1 EXCEPT !.metadata = e.parquet.columns]
        ELSE IF eng = "fastparquet"
        THEN IF eng \notin e.importable THEN Raise(s1, "ImportError", <<>>)
             ELSE LET s2 == IF s1.data_manifest = <<>>
                            THEN [s1 EXCEPT !.data_manifest = e.manifest,
                                            !.log.read_manifest = @ + 1]
                            ELSE s1
                  IN  IF e.io_fails THEN Raise(s2, "OperationalError", <<>>)
                      ELSE [s2 EXCEPT !.metadata = e.parquet.columns]
        ELSE Raise(s1, "ProgrammingError", <<"Engine must be one of pyarrow, fastparquet.">>)

\* mutant: schema recovery is attempted for an empty table too
SchemaAlways(d) == TRUE

\* if df.empty: ... else: self._read_parquet_schema(engine)
SchemaRecovered(d) == ~IsEmptyDF(d)

\* _as_pandas
AsPandasPriv(s, e) ==
    LET s0 == [s EXCEPT !.log.as_pandas = @ + 1]
    IN  IF IsUnload(s0.unload, e.query)
        THEN LET g == GetEngine(s0.engine, e.importable)
                 s1 == [s0 EXCEPT !.log.probes = g.probes, !.log.resolved = g.name]
             IN  IF ~g.ok THEN Raise(s1, "ImportError", g.msg)
                 ELSE LET s2 == ReadParquet(s1, e, g.name)
                      IN  IF s2.err.type # "none" THEN s2
                          ELSE IF ~SchemaRecovered(s2.df) THEN [s2 EXCEPT !.metadata = <<>>]
                          ELSE ReadParquetSchema(s2, e, g.name)
        ELSE ReadCsv(s0, e)

\* ------------------------------------------------------------------ cursor
\* the cursor part of the object: c = [iterrows, rownumber, nSucc]
ReturnedNone == [kind |-> "none", val |-> <<>>]

\* mutant: the enumerate index is stored as it is, without the + 1
FetchOneIndexAsRownumber(c, md) ==
    IF c.iterrows.pos >= Len(c.iterrows.records)
    THEN [c |-> c, row |-> ReturnedNone]
    ELSE LET index == c.iterrows.pos
             record == c.iterrows.records[index + 1]
             description == Description(md)
         IN  [c |-> [iterrows |-> [c.iterrows EXCEPT !.pos = @ + 1],
                     rownumber |-> index,
                     nSucc |-> c.nSucc + 1],
              row |-> [kind |-> "row",
                       val |-> [i \in 1..Len(description) |-> record[description[i]]]]]

\* fetchone: next(self._iterrows) gives (index, record), or raises StopIteration
FetchOneOp(c, md) ==
    IF c.iterrows.pos >= Len(c.iterrows.records)
    THEN [c |-> c, row |-> ReturnedNone]
    ELSE LET index == c.iterrows.pos
             record == c.iterrows.records[index + 1]
             description == Description(md)
         IN  [c |-> [iterrows |-> [c.iterrows EXCEPT !.pos = @ + 1],
                     rownumber |-> index + 1,
                     nSucc |-> c.nSucc + 1],
              row |-> [kind |-> "row",
                       val |-> [i \in 1..Len(description) |-> record[description[i]]]]]

\* "if row:" is false for None and for the empty tuple
RowTruthy(row) == row.kind = "row" /\ Len(row.val) > 0

\* the for loop of fetchmany: at most n more fetchone calls, stopping at a false row
RECURSIVE FetchLoop(_, _, _, _)
FetchLoop(c, md, n, rows) ==
    IF n = 0 THEN [c |-> c, rows |-> rows]
    ELSE LET r == FetchOneOp(c, md)
         IN  IF RowTruthy(r.row) THEN FetchLoop(r.c, md, n - 1, Append(rows, r.row.val))
             ELSE [c |-> r.c, rows |-> rows]

\* mutant: a full chunk consumes one row more than it returns
FetchManyOneTooMany(c, md, size, default) ==
    LET n == IF size = 0 THEN default ELSE size
        r == FetchLoop(c, md, n, <<>>)
    IN  IF Len(r.rows) = n THEN [c |-> FetchOneOp(r.c, md).c, rows |-> r.rows] ELSE r

\* fetchmany(size); size 0 stands for a size that is None or not positive
FetchManyOp(c, md, size, default) ==
    FetchLoop(c, md, IF size = 0 THEN default ELSE size, <<>>)

\* fetchall: fetchone until a false row
RECURSIVE FetchAllOp(_, _, _)
FetchAllOp(c, md, rows) ==
    LET r == FetchOneOp(c, md)
    IN  IF RowTruthy(r.row) THEN FetchAllOp(r.c, md, Append(rows, r.row.val))
        ELSE [c |-> r.c, rows |-> rows]

\* mutant: the rows the cursor has not consumed yet
AsPandasRemaining(d, it) ==
    [d EXCEPT !.rows = SubSeq(d.rows, it.pos + 1, Len(d.rows))]

\* as_pandas: return self._df
AsPandasOp(d, it) == d

\* enumerate(records)
Enumerate(records) == [records |-> records, pos |-> 0]

\* mutant: close leaves the row iterator in place
CloseIterrowsKept(it) == it

\* close: self._iterrows = enumerate([])
CloseIterrows(it) == Enumerate(<<>>)

\* the base class's constructor: no row fetched yet
SuperRownumber == 0

\* the base class's close: the metadata is dropped; the row number is reset or kept
SuperCloseRownumbers(rn) == {0, rn}

\* --------------------------------------------------------- initial states
Some(n) == SubSeq(<<"c1", "c2">>, 1, n)

SeqsUpTo(S, n) == UNION {[1..k -> S] : k \in 0..n}

\* the lines of a text output file of n columns: a blank line has no field
Lines(n) == IF n = 1 THEN {<<>>, <<"x">>, <<"y">>} ELSE {<<>>, <<"x", "">>, <<"", "y">>}

CsvLocation == <<"q">> \o DotCsv
TxtLocation == <<"q">> \o DotTxt
ManifestLocation == <<"q">>

\* a .csv file starts with the header line, a .txt file has none; either may be empty
TextFiles(loc, n) ==
    IF EndsWith(loc, DotCsv)
    THEN {<<>>} \cup {<<Some(n)>> \o d : d \in SeqsUpTo(Lines(n), MaxLines)}
    ELSE SeqsUpTo(Lines(n), MaxLines)

Paths == SeqsUpTo({"/", "a"}, MaxPathLen) \ {<<>>}

\* "s3://bkt/out/part-0000.parquet"
PartFile ==
    <<"s", "3", ":", "/", "/", "b", "k", "t", "/", "o", "u", "t", "/", "p", "a", "r", "t",
      "-", "0", "0", "0", "0", ".", "p", "a", "r", "q", "u", "e", "t">>

Manifests ==
    {<<>>, <<PartFile>>} \cup {<<p>> : p \in Paths}
        \cup {<<p, <<"b", "/", "b">>>> : p \in Paths}

ParquetRow(v) == [c \in {"c1"} |-> v]

ParquetTables ==
    {[columns |-> <<"c1">>, rows |-> r] : r \in {<<>>, <<ParquetRow("x"), ParquetRow("y")>>}}

UnloadQuery == UNLOAD \o <<" ", "(">>

Queries ==
    {None, <<>>, UnloadQuery, UNLOAD, UNLOAD \o <<"X">>,
     <<" ", "\n", "u", "n", "l", "o", "a", "d", " ">>,
     <<"\t", "U", "n", "L", "o", "A", "d">>,
     <<"U", "N", "L", "O", "A">>,
     <<"x", " ">> \o UNLOAD,
     <<"S", "E", "L">>}

States == {"QUEUED", "RUNNING", "SUCCEEDED", "FAILED", "CANCELLED"}

Engines == {"auto", "pyarrow", "fastparquet", "numba"}

DefaultEnv ==
    [state |-> "SUCCEEDED", output_location |-> CsvLocation, query |-> <<"S", "E", "L">>,
     metadata |-> Some(1), file |-> <<>>, io_fails |-> FALSE,
     importable |-> {"pyarrow", "fastparquet"}, manifest |-> <<>>,
     parquet |-> [columns |-> <<"c1">>, rows |-> <<>>]]

\* ordinary queries: the text output file varies
TextEnvs ==
    {[DefaultEnv EXCEPT !.output_location = loc, !.metadata = Some(n), !.file = f,
                        !.io_fails = io] :
        <<loc, n, f, io>> \in
            {t \in {CsvLocation, TxtLocation} \X {1, 2}
                   \X (TextFiles(CsvLocation, 1) \cup TextFiles(CsvLocation, 2)
                       \cup TextFiles(TxtLocation, 1) \cup TextFiles(TxtLocation, 2))
                   \X BOOLEAN :
                t[3] \in TextFiles(t[1], t[2])}}

\* UNLOAD queries: the manifest, the importable engines and the stored table vary
UnloadEnvs ==
    {[DefaultEnv EXCEPT !.output_location = ManifestLocation, !.query = UnloadQuery,
                        !.importable = imp, !.manifest = m, !.parquet = t] :
        <<imp, m, t>> \in (SUBSET {"pyarrow", "fastparquet"}) \X Manifests \X ParquetTables}

\* the query execution varies: its state, its output location and the query text
GateEnvs ==
    {[DefaultEnv EXCEPT !.state = st, !.output_location = loc, !.query = q,
                        !.metadata = IF st = "SUCCEEDED" THEN Some(1) ELSE None,
                        !.file = IF loc = CsvLocation THEN <<<<"c1">>, <<"x">>, <<>>>>
                                 ELSE <<<<"x">>, <<>>>>,
                        !.manifest = <<<<"a", "/", "a">>>>,
                        !.parquet = [columns |-> <<"c1">>, rows |-> <<ParquetRow("x")>>]] :
        <<st, loc, q>> \in
            States \X {None, <<>>, CsvLocation, TxtLocation, ManifestLocation} \X Queries}

InitObject ==
    /\ phase = "new"
    /\ error = NoError
    /\ data_manifest = <<>>
    /\ metadata = None
    /\ df = EmptyDataFrame
    /\ iterrows = Enumerate(<<>>)
    /\ rownumber = 0
    /\ lastOp = "none"
    /\ result = [kind |-> "nothing", val |-> <<>>]
    /\ nSucc = 0
    /\ log = NoLog
    /\ chunk = [mode |-> "fresh", k |-> 0, acc |-> <<>>, done |-> FALSE]

InitText ==
    /\ env \in TextEnvs
    /\ unload = FALSE
    /\ unload_location = None
    /\ engine = "auto"
    /\ arraysize = MaxSize
    /\ InitObject

InitUnload ==
    /\ env \in UnloadEnvs
    /\ unload = TRUE
    /\ unload_location \in {None, <<>>, <<"b", "/">>}
    /\ engine \in Engines
    /\ engine # "auto" => env.importable = {"pyarrow", "fastparquet"} \/ env.importable = {}
    /\ arraysize = 1
    /\ InitObject

InitGate ==
    /\ env \in GateEnvs
    /\ unload \in BOOLEAN
    /\ unload_location = None
    /\ engine = "auto"
    /\ arraysize = 1
    /\ InitObject

Init == InitText \/ InitUnload \/ InitGate

\* ----------------------------------------------------------------- actions
\* __init__: the base constructor, the fields, then the table and its row iterator
Construct ==
    /\ phase = "new"
    /\ LET s0 == [unload |-> unload, unload_location |-> unload_location,
                  engine |-> engine, data_manifest |-> <<>>, metadata |-> env.metadata,
                  log |-> [NoLog EXCEPT !.configured = unload_location],
                  err |-> NoError, df |-> EmptyDataFrame]
           s == IF env.state = "SUCCEEDED" /\ Truthy(env.output_location)
                THEN AsPandasPriv(s0, env)
                ELSE s0
       IN  /\ error' = s.err
           /\ log' = s.log
           /\ unload_location' = s.unload_location
           /\ data_manifest' = s.data_manifest
           /\ metadata' = s.metadata
           /\ IF s.err.type = "none"
              THEN /\ phase' = "open"
                   /\ df' = s.df
                   /\ iterrows' = Enumerate(s.df.rows)
              ELSE /\ phase' = "failed"
                   /\ UNCHANGED <<df, iterrows>>
    /\ rownumber' = SuperRownumber
    /\ lastOp' = "construct"
    /\ UNCHANGED <<env, unload, engine, arraysize, result, nSucc, chunk>>

Cursor == [iterrows |-> iterrows, rownumber |-> rownumber, nSucc |-> nSucc]

Broken == [chunk EXCEPT !.mode = "broken"]

FetchOne ==
    /\ phase \in {"open", "closed"}
    /\ LET r == FetchOneOp(Cursor, metadata)
       IN  /\ iterrows' = r.c.iterrows
           /\ rownumber' = r.c.rownumber
           /\ nSucc' = r.c.nSucc
           /\ result' = r.row
    /\ lastOp' = "fetchone"
    /\ chunk' = Broken
    /\ UNCHANGED <<env, phase, error, unload, unload_location, engine, arraysize,
                   data_manifest, metadata, df, log>>

FetchMany(size) ==
    /\ phase \in {"open", "closed"}
    /\ LET r == FetchManyOp(Cursor, metadata, size, arraysize)
       IN  /\ iterrows' = r.c.iterrows
           /\ rownumber' = r.c.rownumber
           /\ nSucc' = r.c.nSucc
           /\ result' = [kind |-> "rows", val |-> r.rows]
           /\ chunk' = IF /\ phase = "open"
                          /\ size > 0
                          /\ chunk.mode = "fresh" \/ (chunk.mode = "run" /\ chunk.k = size)
                       THEN [mode |-> "run", k |-> size, acc |-> chunk.acc \o r.rows,
                             done |-> chunk.done \/ r.rows = <<>>]
                       ELSE Broken
    /\ lastOp' = "fetchmany"
    /\ UNCHANGED <<env, phase, error, unload, unload_location, engine, arraysize,
                   data_manifest, metadata, df, log>>

FetchAll ==
    /\ phase \in {"open", "closed"}
    /\ LET r == FetchAllOp(Cursor, metadata, <<>>)
       IN  /\ iterrows' = r.c.iterrows
           /\ rownumber' = r.c.rownumber
           /\ nSucc' = r.c.nSucc
           /\ result' = [kind |-> "rows", val |-> r.rows]
    /\ lastOp' = "fetchall"
    /\ chunk' = Broken
    /\ UNCHANGED <<env, phase, error, unload, unload_location, engine, arraysize,
                   data_manifest, metadata, df, log>>

AsPandas ==
    /\ phase \in {"open", "closed"}
    /\ result' = [kind |-> "table", val |-> AsPandasOp(df, iterrows)]
    /\ lastOp' = "as_pandas"
    /\ UNCHANGED <<env, phase, error, unload, unload_location, engine, arraysize,
                   data_manifest, metadata, df, iterrows, rownumber, nSucc, log, chunk>>

Close ==
    /\ phase \in {"open", "closed"}
    /\ phase' = "closed"
    /\ metadata' = None
    /\ rownumber' \in SuperCloseRownumbers(rownumber)
    /\ df' = EmptyDataFrame
    /\ iterrows' = CloseIterrows(iterrows)
    /\ data_manifest' = <<>>
    /\ result' = [kind |-> "nothing", val |-> <<>>]
    /\ lastOp' = "close"
    /\ chunk' = Broken
    /\ UNCHANGED <<env, error, unload, unload_location, engine, arraysize, nSucc, log>>

Next ==
    \/ Construct
    \/ FetchOne
    \/ \E size \in 0..MaxSize : FetchMany(size)
    \/ FetchAll
    \/ AsPandas
    \/ Close

Spec == Init /\ [][Next]_vars

\* ------------------------------------------------------------------ claims
IsRows(r) == r.kind = "rows"

\* C1: while the result set is open, rownumber is the number of fetchone calls that
\* returned a row, and a fetchone that returns None leaves rownumber as it was.
C1_RownumberCountsRows ==
    [][/\ phase' = "open" => rownumber' = nSucc'
       /\ (phase = "open" /\ lastOp' = "fetchone" /\ result'.kind = "none")
              => rownumber' = rownumber /\ nSucc' = nSucc]_vars

\* C1 witness: two rows were returned and a further fetchone found the cursor exhausted
C1_Witness ==
    /\ phase = "open"
    /\ lastOp = "fetchone"
    /\ result.kind = "none"
    /\ nSucc = 2
    /\ rownumber = 2

\* C2: fetchmany(k) repeated on the fresh cursor until it returns an empty list gives,
\* concatenated, the rows fetchall gives on a fresh cursor over the same table.
C2_ChunksEqualFetchall ==
    (chunk.mode = "run" /\ chunk.done) =>
        chunk.acc = FetchAllOp([iterrows |-> Enumerate(df.rows), rownumber |-> 0,
                                nSucc |-> 0], metadata, <<>>).rows

\* C2 witness: chunks of two over three rows, the last chunk partial, then the empty list
C2_Witness ==
    /\ chunk.mode = "run"
    /\ chunk.done
    /\ chunk.k = 2
    /\ Len(chunk.acc) = 3
    /\ chunk.acc[1] # chunk.acc[3]

ClosedAnswers ==
    /\ df = EmptyDataFrame
    /\ iterrows = Enumerate(<<>>)
    /\ data_manifest = <<>>
    /\ lastOp = "fetchone" => result.kind = "none"
    /\ lastOp \in {"fetchmany", "fetchall"} => IsRows(result) /\ result.val = <<>>
    /\ lastOp = "as_pandas" => result.kind = "table" /\ result.val.rows = <<>>

\* C3: once closed, the result set stays closed; fetchone returns None, fetchmany and
\* fetchall return the empty list, as_pandas a table without rows, and a further close
\* leaves the table, the iterator and the manifest empty.
C3_ClosedStaysEmpty ==
    [][/\ phase = "closed" => phase' = "closed"
       /\ phase' = "closed" => ClosedAnswers']_vars

\* C3 witness: closed with one of three rows consumed, then fetchall
C3_Witness ==
    /\ phase = "closed"
    /\ lastOp = "fetchall"
    /\ nSucc = 1
    /\ log.read_csv = 1
    /\ Len(env.file) = 3
    /\ EndsWith(env.output_location, DotTxt)

\* C4: while open, no operation changes the table; as_pandas returns that table whatever
\* the cursor has consumed, and leaves the cursor and rownumber as they were.
C4_TableAndCursorIndependent ==
    [][(phase = "open" /\ phase' = "open") =>
          /\ df' = df
          /\ lastOp' = "as_pandas" =>
                /\ result'.kind = "table"
                /\ result'.val = df
                /\ iterrows' = iterrows
                /\ rownumber' = rownumber]_vars

\* C4 witness: as_pandas after two of three rows were fetched returns three rows
C4_Witness ==
    /\ phase = "open"
    /\ lastOp = "as_pandas"
    /\ iterrows.pos = 2
    /\ rownumber = 2
    /\ result.kind = "table"
    /\ Len(result.val.rows) = 3

\* the data lines of the text file, counted on the file itself
DataLines(e) ==
    IF e.file # <<>> /\ EndsWith(e.output_location, DotCsv) THEN Tail(e.file) ELSE e.file

ExpectedTuple(line, n) ==
    [i \in 1..n |-> IF line = <<>> THEN NULL ELSE IF line[i] = "" THEN NULL ELSE line[i]]

TextPathTaken == log.as_pandas = 1 /\ log.resolved = "-" /\ error.type # "ImportError"

C6_EmptyManifestNoSchema ==
    (lastOp = "construct" /\ log.read_manifest >= 1 /\ env.manifest = <<>>) =>
        /\ phase = "open"
        /\ df.rows = <<>>
        /\ log.read_parquet = 0
        /\ log.read_schema = 0
        /\ metadata = <<>>

\* C6 witness: the manifest was read and is empty although the store holds rows
C6_Witness ==
    /\ lastOp = "construct"
    /\ phase = "open"
    /\ log.read_manifest = 1
    /\ env.manifest = <<>>
    /\ env.parquet.rows # <<>>
    /\ metadata = <<>>

ColumnarConstruction ==
    /\ lastOp = "construct"
    /\ unload
    /\ env.query = UnloadQuery
    /\ env.state = "SUCCEEDED"
    /\ env.output_location = ManifestLocation

\* C7: with "auto", pyarrow is probed first and fastparquet only after pyarrow failed,
\* the first that imports is the engine; if neither imports the ImportError names both
\* engines and carries both import failures; a named engine is returned unprobed.
C7_EngineResolution ==
    ColumnarConstruction =>
        /\ (engine = "auto" /\ "pyarrow" \in env.importable) =>
              log.probes = <<"pyarrow">> /\ log.resolved = "pyarrow"
        /\ (engine = "auto" /\ env.importable = {"fastparquet"}) =>
              log.probes = <<"pyarrow", "fastparquet">> /\ log.resolved = "fastparquet"
        /\ (engine = "auto" /\ env.importable = {}) =>
              /\ phase = "failed"
              /\ error.type = "ImportError"
              /\ log.probes = <<"pyarrow", "fastparquet">>
              /\ {"pyarrow", "fastparquet"} \subseteq Range(error.msg)
              /\ {"No module named 'pyarrow'", "No module named 'fastparquet'"}
                    \subseteq Range(error.msg)
        /\ engine # "auto" => log.probes = <<>> /\ log.resolved = engine

\* C7 witness: "auto" with nothing importable failed with the ImportError
C7_Witness ==
    /\ ColumnarConstruction
    /\ engine = "auto"
    /\ env.importable = {}
    /\ phase = "failed"
    /\ error.type = "ImportError"

\* the characters of p up to and including its last "/", or "/" alone if it has none
LastSlash(p) ==
    IF \E i \in 1..Len(p) : p[i] = "/"
    THEN CHOOSE i \in 1..Len(p) : p[i] = "/" /\ \A j \in (i + 1)..Len(p) : p[j] # "/"
    ELSE 0

ParentWithSlash(p) == IF LastSlash(p) = 0 THEN <<"/">> ELSE SubSeq(p, 1, LastSlash(p))

\* C8: when the columnar read is issued, the read root is the configured unload location
\* if there is one, else the first manifest entry without its last segment, ending in "/".
C8_UnloadRoot ==
    (lastOp = "construct" /\ log.read_parquet = 1) =>
        /\ env.manifest # <<>>
        /\ unload_location =
              IF log.configured \in {None, <<>>} THEN ParentWithSlash(env.manifest[1])
              ELSE log.configured
        /\ log.target \in {unload_location, unload_location \o <<"*">>}

\* C8 witness: manifest ["s3://bkt/out/part-0000.parquet"], no unload location configured
C8_Witness ==
    /\ lastOp = "construct"
    /\ log.read_parquet = 1
    /\ log.configured = None
    /\ env.manifest = <<PartFile>>
    /\ unload_location = SubSeq(PartFile, 1, 13)

\* the sample queries that, stripped and upper-cased, start with UNLOAD
UnloadStatements ==
    {UnloadQuery, UNLOAD, UNLOAD \o <<"X">>,
     <<" ", "\n", "u", "n", "l", "o", "a", "d", " ">>,
     <<"\t", "U", "n", "L", "o", "A", "d">>}

Gate == env.state = "SUCCEEDED" /\ env.output_location \notin {None, <<>>}

ColumnarPathTaken == log.as_pandas = 1 /\ (log.resolved # "-" \/ error.type = "ImportError")

\* C9: the materialiser runs once exactly when the state is SUCCEEDED and the output
\* location is non-empty, on the columnar path exactly when the unload flag is set and
\* the query is an UNLOAD statement, else on the text path; otherwise nothing is read
\* and the table is empty; no later operation reads again.
C9_MaterialisedOnce ==
    phase # "new" =>
        /\ log.as_pandas = IF Gate THEN 1 ELSE 0
        /\ Gate => /\ ColumnarPathTaken <=> (unload /\ env.query \in UnloadStatements)
                   /\ TextPathTaken <=> ~(unload /\ env.query \in UnloadStatements)
                   /\ TextPathTaken =>
                         log.read_manifest = 0 /\ log.read_parquet = 0 /\ log.read_schema = 0
                   /\ ColumnarPathTaken => log.read_csv = 0
        /\ ~Gate => /\ phase \in {"open", "closed"}
                    /\ df = EmptyDataFrame
                    /\ log.read_csv = 0
                    /\ log.read_manifest = 0
                    /\ log.read_parquet = 0
                    /\ log.read_schema = 0
        /\ log.read_csv <= 1 /\ log.read_parquet <= 1 /\ log.read_schema <= 1
        /\ log.read_manifest <= 1

\* C9 witness: a lower-case, padded unload statement took the columnar path, once, and
\* rows were fetched afterwards
C9_Witness ==
    /\ phase = "open"
    /\ lastOp = "fetchall"
    /\ unload
    /\ env.query = <<" ", "\n", "u", "n", "l", "o", "a", "d", " ">>
    /\ log.as_pandas = 1
    /\ log.read_parquet = 1
    /\ log.read_csv = 0
    /\ nSucc = 1

\* C10: the engine handed to the columnar reader is the engine __get_engine resolved,
\* which also decided the read target and options and is used for schema recovery.
C10_ResolvedEngineReads ==
    log.read_parquet >= 1 =>
        /\ log.resolved \in {"pyarrow", "fastparquet"}
        /\ log.decided = log.resolved
        /\ log.handed = log.resolved
        /\ log.read_schema >= 1 => log.schema_engine = log.resolved

====
